---- MODULE Spec2Model ----
(***************************************************************************)
(* Model of the Trading Places template helpers (src/unnamed/part_000) and *)
(* of the Character Questions application (src/scripts).                   *)
(*                                                                         *)
(* JavaScript numbers are IEEE-754 binary64 values.  The cargo slot        *)
(* arithmetic is modelled bit-exactly: a double is sign * m * 2^e with a   *)
(* 53 bit mantissa m, kept as a list of limbs because a mantissa and the   *)
(* product of two mantissas exceed the integers TLC computes with.         *)
(* Overflow to Infinity, subnormals and NaN do not occur for the values    *)
(* the model draws and are not represented.                                *)
(***************************************************************************)
EXTENDS Integers, Sequences, FiniteSets, TLC

VARIABLES
    dataManager,       \* module global `dataManager`: <<>> (null) or
                       \* <<[dataset |-> name, sourceFlags |-> <<>> or <<flag definitions>>]>>
    tradingConfig,     \* dataManager.tradingConfig: <<>> (not loaded) or <<config>>
    activeDataset,     \* setting "activeDataset"
    currentSeason,     \* setting "currentSeason"
    chatVisibility,    \* setting "chatVisibility"
    readyPc,           \* the position of the 'ready' hook of Trading Places
    rendering,         \* the template context: what the helpers are invoked with
    call,              \* the last helper invocation: its name, arguments and result
    chat,              \* the chat messages created so far (ChatMessage.create)
    notice,            \* the last notification shown (ui.notifications)
    questions,         \* CharacterQuestions.questions, the session question list
    blockedQuestions,  \* setting "blockedQuestions"
    pendingAdds,       \* addQuestion calls suspended in their fetch
    loading,           \* the category buttons that carry the class "loading"
    nextId,            \* the number of question ids handed out
    countRequests,     \* updateCategoryCounts calls suspended in their fetch
    categoryCount,     \* the text of the .category-count badge of each category
    formRequest,       \* the form submission (older version) suspended in its fetch
    version,           \* which script the world runs: "current" or "backup"
    controls,          \* the names of the scene controls list the host hands to the hook
    hookLog,           \* console: what each firing of the scene-controls hook logged
    userDatasets,      \* setting "userDatasets"
    datasetData,       \* the names whose setting "userDataset_<name>" holds data
    deleteDialogs      \* the names of the open "Confirm Dataset Deletion" dialogs

moduleVars == <<dataManager, tradingConfig, activeDataset, currentSeason, chatVisibility, readyPc>>
renderVars == <<rendering, call>>
hostVars == <<chat, notice>>
formVars == <<formRequest, version>>
countVars == <<countRequests, categoryCount>>
questionVars == <<questions, blockedQuestions, pendingAdds, loading, nextId, countVars, formVars>>
settingsVars == <<controls, hookLog, userDatasets, datasetData, deleteDialogs>>
vars == <<moduleVars, renderVars, hostVars, questionVars, settingsVars>>

(***************************************************************************)
(* Natural numbers of any size, little-endian limbs, no leading zero limb. *)
(***************************************************************************)
LimbBits == 13
Limb == 8192
MantBits == 53

RECURSIVE Pow2(_)
Pow2(k) == IF k = 0 THEN 1 ELSE 2 * Pow2(k - 1)

RECURSIVE BTrim(_)
BTrim(a) == IF Len(a) > 0 /\ a[Len(a)] = 0 THEN BTrim(SubSeq(a, 1, Len(a) - 1)) ELSE a

RECURSIVE BFromInt(_)
BFromInt(n) == IF n = 0 THEN <<>> ELSE <<n % Limb>> \o BFromInt(n \div Limb)

RECURSIVE BToInt(_)
BToInt(a) == IF Len(a) = 0 THEN 0 ELSE a[1] + Limb * BToInt(Tail(a))

BLimbAt(a, i) == IF i >= 1 /\ i <= Len(a) THEN a[i] ELSE 0

RECURSIVE BAddC(_, _, _)
BAddC(a, b, c) ==
    IF Len(a) = 0 /\ Len(b) = 0
    THEN (IF c = 0 THEN <<>> ELSE <<c>>)
    ELSE LET s == BLimbAt(a, 1) + BLimbAt(b, 1) + c
         IN  <<s % Limb>> \o BAddC(IF Len(a) = 0 THEN a ELSE Tail(a),
                                   IF Len(b) = 0 THEN b ELSE Tail(b), s \div Limb)

BAdd(a, b) == BAddC(a, b, 0)

RECURSIVE BSubC(_, _, _)
BSubC(a, b, c) ==
    IF Len(a) = 0 THEN <<>>
    ELSE LET s == a[1] - BLimbAt(b, 1) - c
         IN  <<s % Limb>> \o BSubC(Tail(a), IF Len(b) = 0 THEN b ELSE Tail(b),
                                   IF s < 0 THEN 1 ELSE 0)

\* a - b for a >= b
BSub(a, b) == BTrim(BSubC(a, b, 0))

RECURSIVE BCmpFrom(_, _, _)
BCmpFrom(a, b, i) ==
    IF i = 0 THEN 0
    ELSE IF a[i] > b[i] THEN 1
    ELSE IF a[i] < b[i] THEN -1
    ELSE BCmpFrom(a, b, i - 1)

BCmp(a, b) ==
    IF Len(a) > Len(b) THEN 1
    ELSE IF Len(a) < Len(b) THEN -1
    ELSE BCmpFrom(a, b, Len(a))

RECURSIVE BMulSmallC(_, _, _)
BMulSmallC(a, x, c) ==
    IF Len(a) = 0 THEN (IF c = 0 THEN <<>> ELSE BFromInt(c))
    ELSE LET p == a[1] * x + c
         IN  <<p % Limb>> \o BMulSmallC(Tail(a), x, p \div Limb)

\* a * x for 0 <= x <= Limb
BMulSmall(a, x) == IF x = 0 THEN <<>> ELSE BMulSmallC(a, x, 0)

RECURSIVE BMul(_, _)
BMul(a, b) ==
    IF Len(b) = 0 \/ Len(a) = 0 THEN <<>>
    ELSE BAdd(BMulSmall(a, b[1]), BTrim(<<0>> \o BMul(a, Tail(b))))

Zeros(n) == [i \in 1..n |-> 0]

\* a * 2^k
BShl(a, k) ==
    IF Len(a) = 0 THEN a
    ELSE Zeros(k \div LimbBits) \o BMulSmall(a, Pow2(k % LimbBits))

\* floor(a / 2^k)
BShr(a, k) ==
    LET d == k \div LimbBits
        r == k % LimbBits
        p == Pow2(r)
        q == Pow2(LimbBits - r)
    IN  IF d >= Len(a) THEN <<>>
        ELSE BTrim([i \in 1..(Len(a) - d) |->
                     (a[i + d] \div p) + (BLimbAt(a, i + d + 1) % p) * q])

\* bit i of a (bit 0 is the lowest)
BBit(a, i) == (BLimbAt(a, (i \div LimbBits) + 1) \div Pow2(i % LimbBits)) % 2

\* a mod 2^k = 0
BLowZero(a, k) ==
    /\ \A i \in 1..(k \div LimbBits) : BLimbAt(a, i) = 0
    /\ BLimbAt(a, (k \div LimbBits) + 1) % Pow2(k % LimbBits) = 0

RECURSIVE IntBitLen(_)
IntBitLen(n) == IF n = 0 THEN 0 ELSE 1 + IntBitLen(n \div 2)

BBitLen(a) == IF Len(a) = 0 THEN 0 ELSE LimbBits * (Len(a) - 1) + IntBitLen(a[Len(a)])

\* quotient and remainder of a by a small positive d (d < Limb)
RECURSIVE BDivSmallFrom(_, _, _, _)
BDivSmallFrom(a, d, i, rem) ==
    IF i = 0 THEN [q |-> <<>>, r |-> rem]
    ELSE LET cur == rem * Limb + a[i]
             rest == BDivSmallFrom(a, d, i - 1, cur % d)
         IN  [q |-> rest.q \o <<cur \div d>>, r |-> rest.r]

BDivSmall(a, d) ==
    LET res == BDivSmallFrom(a, d, Len(a), 0) IN [q |-> BTrim(res.q), r |-> res.r]

(***************************************************************************)
(* IEEE-754 binary64: [s, m, e] is s * m * 2^e, s in {-1, 0, 1}; a         *)
(* non-zero value has a mantissa of exactly 53 bits, so that equal values  *)
(* have equal representations.                                             *)
(***************************************************************************)
DZero == [s |-> 0, m |-> <<>>, e |-> 0]

\* round to nearest, ties to even, of (m + f) * 2^e, where sticky says that
\* a fraction 0 < f < 1 below the last bit of m was dropped
RoundToDouble(s, m, e, sticky) ==
    LET len == BBitLen(m)
    IN  IF len = 0 THEN DZero
        ELSE IF len <= MantBits
        THEN [s |-> s, m |-> BShl(m, MantBits - len), e |-> e - (MantBits - len)]
        ELSE LET k == len - MantBits
                 q == BShr(m, k)
                 half == BBit(m, k - 1) = 1
                 low == sticky \/ ~BLowZero(m, k - 1)
                 up == half /\ (low \/ BBit(q, 0) = 1)
                 q1 == IF up THEN BAdd(q, <<1>>) ELSE q
             IN  IF BBitLen(q1) > MantBits
                 THEN [s |-> s, m |-> BShr(q1, 1), e |-> e + k + 1]
                 ELSE [s |-> s, m |-> q1, e |-> e + k]

\* the double of an integer literal
DFromInt(n) ==
    IF n = 0 THEN DZero
    ELSE RoundToDouble(IF n < 0 THEN -1 ELSE 1, BFromInt(IF n < 0 THEN -n ELSE n), 0, FALSE)

\* the double a decimal literal n/d of the dataset JSON denotes (d = 10^j < Limb)
DFromDecimal(n, d) ==
    IF n = 0 THEN DZero
    ELSE LET a == IF n < 0 THEN -n ELSE n
             k == 5 * LimbBits + IntBitLen(d)
             res == BDivSmall(BShl(BFromInt(a), k), d)
         IN  RoundToDouble(IF n < 0 THEN -1 ELSE 1, res.q, -k, res.r # 0)

\* x * y
DMul(x, y) ==
    IF x.s = 0 \/ y.s = 0 THEN DZero
    ELSE RoundToDouble(x.s * y.s, BMul(x.m, y.m), x.e + y.e, FALSE)

\* x + y
DAdd(x, y) ==
    IF x.s = 0 THEN y
    ELSE IF y.s = 0 THEN x
    ELSE LET e == IF x.e < y.e THEN x.e ELSE y.e
             xm == BShl(x.m, x.e - e)
             ym == BShl(y.m, y.e - e)
             c == BCmp(xm, ym)
         IN  IF x.s = y.s THEN RoundToDouble(x.s, BAdd(xm, ym), e, FALSE)
             ELSE IF c = 0 THEN DZero
             ELSE IF c > 0 THEN RoundToDouble(x.s, BSub(xm, ym), e, FALSE)
             ELSE RoundToDouble(y.s, BSub(ym, xm), e, FALSE)

\* the sign of x - y
DCmp(x, y) ==
    IF x.s # y.s THEN (IF x.s > y.s THEN 1 ELSE -1)
    ELSE IF x.s = 0 THEN 0
    ELSE LET e == IF x.e < y.e THEN x.e ELSE y.e
         IN  x.s * BCmp(BShl(x.m, x.e - e), BShl(y.m, y.e - e))

\* x > y
DGreater(x, y) == DCmp(x, y) > 0

\* Math.round(x): the nearest integer, a tie towards +Infinity
MathRound(x) ==
    IF x.s = 0 THEN 0
    ELSE IF x.e >= 0 THEN x.s * BToInt(BShl(x.m, x.e))
    ELSE LET k == -x.e
             q == BToInt(BShr(x.m, k))
             half == BBit(x.m, k - 1) = 1
             low == ~BLowZero(x.m, k - 1)
         IN  IF x.s > 0 THEN (IF half THEN q + 1 ELSE q)
             ELSE (IF half /\ low THEN -(q + 1) ELSE -q)

\* x.toFixed(2), as the number of hundredths it prints: the integer n with
\* n / 100 nearest to x, a tie to the larger magnitude
toFixed2(x) ==
    IF x.s = 0 THEN 0
    ELSE LET m == BMulSmall(x.m, 100)
         IN  IF x.e >= 0 THEN x.s * BToInt(BShl(m, x.e))
             ELSE x.s * (BToInt(BShr(m, -x.e)) + BBit(m, -x.e - 1))

\* Math.max(a, b) on integers
MathMax(a, b) == IF a >= b THEN a ELSE b

(***************************************************************************)
(* JavaScript strings are sequences of characters.                         *)
(***************************************************************************)
LowerChars == <<"c", "s", "t", "v", "f", "m", "x", "r", "a", "d", "e", "i", "n", "u", "g", "l">>
UpperChars == <<"C", "S", "T", "V", "F", "M", "X", "R", "A", "D", "E", "I", "N", "U", "G", "L">>
Digits == <<"0", "1", "2", "3", "4", "5", "6", "7", "8", "9">>

IndexOf(seq, ch) == IF \E i \in DOMAIN seq : seq[i] = ch
                    THEN CHOOSE i \in DOMAIN seq : seq[i] = ch
                    ELSE 0

toUpperCaseChar(ch) == IF IndexOf(LowerChars, ch) # 0 THEN UpperChars[IndexOf(LowerChars, ch)] ELSE ch
toLowerCaseChar(ch) == IF IndexOf(UpperChars, ch) # 0 THEN LowerChars[IndexOf(UpperChars, ch)] ELSE ch

\* String.prototype.toUpperCase / toLowerCase
toUpperCase(str) == [i \in DOMAIN str |-> toUpperCaseChar(str[i])]
toLowerCase(str) == [i \in DOMAIN str |-> toLowerCaseChar(str[i])]

(***************************************************************************)
(* JavaScript values passed as size or wealth: a string, a number (the     *)
(* model draws integers) or undefined.                                     *)
(***************************************************************************)
Str(chars) == [t |-> "string", str |-> chars]
Num(n) == [t |-> "number", num |-> n]
Undefined == [t |-> "undefined"]

NaN == [nan |-> TRUE, n |-> 0]
Finite(n) == [nan |-> FALSE, n |-> n]

RECURSIVE DigitsValue(_)
DigitsValue(str) ==
    IF Len(str) = 0 THEN 0
    ELSE 10 * DigitsValue(SubSeq(str, 1, Len(str) - 1)) + (IndexOf(Digits, str[Len(str)]) - 1)

\* Number(v): a string of digits is its value, the empty string 0, any other
\* string and undefined NaN
Number(v) ==
    IF v.t = "number" THEN Finite(v.num)
    ELSE IF v.t = "string"
    THEN (IF \A i \in DOMAIN v.str : IndexOf(Digits, v.str[i]) # 0
          THEN Finite(DigitsValue(v.str))
          ELSE NaN)
    ELSE NaN

\* x || 1 on a number: NaN and 0 are falsy
OrOne(x) == IF x.nan \/ x.n = 0 THEN 1 ELSE x.n

sizeMap ==
    (<<"C", "S">> :> 5) @@ (<<"C">> :> 4) @@ (<<"T">> :> 3) @@ (<<"S", "T">> :> 2) @@
    (<<"V">> :> 1) @@ (<<"F">> :> 1) @@ (<<"M">> :> 5)

\* a faulty getSizeRating: the lookup without toUpperCase
getSizeRatingWrongCase(size) ==
    IF size.t = "string"
    THEN (IF size.str \in DOMAIN sizeMap THEN sizeMap[size.str] ELSE 1)
    ELSE OrOne(Number(size))


\* a faulty getSizeRating: a string that is no code is read as a number
getSizeRatingNumericStrings(size) ==
    IF size.t = "string"
    THEN (IF toUpperCase(size.str) \in DOMAIN sizeMap THEN sizeMap[toUpperCase(size.str)]
          ELSE OrOne(Number(size)))
    ELSE OrOne(Number(size))

\* helper getSizeRating(size)
getSizeRating(size) ==
    IF size.t = "string"
    THEN (IF toUpperCase(size.str) \in DOMAIN sizeMap THEN sizeMap[toUpperCase(size.str)] ELSE 1)
    ELSE OrOne(Number(size))

\* const wealthRating = Number(wealth) || 1
wealthRating(wealth) == OrOne(Number(wealth))

\* helper calculateAvailableSlots(size, wealth)
calculateAvailableSlots(size, wealth) ==
    MathMax(1, (getSizeRating(size) \div 2) + (wealthRating(wealth) \div 2))

(***************************************************************************)
(* Settlements and the trading configuration.  An optional property is a   *)
(* sequence: <<>> when the property is absent, <<v>> when it holds v.      *)
(***************************************************************************)
MaxFlags == 2

sTrade == <<"t", "r", "a", "d", "e">>
sMine == <<"m", "i", "n", "e">>
sMineCapital == <<"M", "i", "n", "e">>
sSmuggling == <<"s", "m", "u", "g", "g", "l", "i", "n", "g">>
sT == <<"T">>
sXX == <<"X", "X">>

Seasons == {"spring", "summer", "autumn", "winter"}

FlagNames == {sTrade, sMineCapital, sSmuggling}

FlagLists == UNION {[1..n -> FlagNames] : n \in 0..MaxFlags}

Settlements ==
    [size : {Str(sT), Str(sXX), Num(6)}, population : {0, 1000}, flags : FlagLists]

Dec(n, d) == DFromDecimal(n, d)

BasePerSizeTables ==
    { <<>>,
      << (1 :> DFromInt(2)) @@ (3 :> DFromInt(3)) >>,
      << (1 :> DFromInt(0)) @@ (3 :> Dec(25, 10)) @@ (6 :> DFromInt(-2)) >> }

FlagMultiplierTables ==
    { <<>>,
      << (sTrade :> Dec(12, 10)) @@ (sMine :> DFromInt(1)) @@ (sSmuggling :> DFromInt(0)) >>,
      << (sTrade :> Dec(7, 10)) @@ (sMine :> Dec(25, 10)) >> }

CargoSlotsConfigs ==
    [basePerSize : BasePerSizeTables,
     populationMultiplier : {<<>>, <<Dec(1, 1000)>>},
     sizeMultiplier : {<<>>, <<Dec(5, 10)>>},
     hardCap : {<<>>, <<DFromInt(20)>>, <<DFromInt(5)>>, <<Dec(4, 10)>>},
     flagMultipliers : FlagMultiplierTables]

TradingConfigs ==
    {<<>>, <<[cargoSlots |-> <<>>]>>} \cup {<<[cargoSlots |-> <<c>>]>> : c \in CargoSlotsConfigs}

\* dataManager.getSettlementProperties(settlement)
getSettlementProperties(settlement) ==
    [sizeNumeric |-> getSizeRating(settlement.size),
     population |-> settlement.population,
     productionCategories |-> [i \in DOMAIN settlement.flags |-> toLowerCase(settlement.flags[i])]]

(***************************************************************************)
(* Helper getCargoSlotsCalculationBreakdown, step by step.                 *)
(***************************************************************************)
\* config.basePerSize?.[String(n)] ?? config.basePerSize?.[n] ?? Math.max(1, n || 1)
baseSlots(props, config) ==
    IF config.basePerSize # <<>> /\ props.sizeNumeric \in DOMAIN config.basePerSize[1]
    THEN config.basePerSize[1][props.sizeNumeric]
    ELSE DFromInt(MathMax(1, IF props.sizeNumeric = 0 THEN 1 ELSE props.sizeNumeric))

\* x ?? 0
OrZero(opt) == IF opt = <<>> THEN DZero ELSE opt[1]

\* a faulty populationContribution: config.populationMultiplier ?? 1
populationContributionDefaultOne(props, config) ==
    DMul(DFromInt(props.population),
         IF config.populationMultiplier = <<>> THEN DFromInt(1)
         ELSE config.populationMultiplier[1])

\* (props.population || 0) * (config.populationMultiplier ?? 0)
populationContribution(props, config) ==
    DMul(DFromInt(props.population), OrZero(config.populationMultiplier))

\* a faulty sizeContribution: config.sizeMultiplier ?? 1
sizeContributionDefaultOne(props, config) ==
    DMul(DFromInt(props.sizeNumeric),
         IF config.sizeMultiplier = <<>> THEN DFromInt(1) ELSE config.sizeMultiplier[1])

\* (props.sizeNumeric || 0) * (config.sizeMultiplier ?? 0)
sizeContribution(props, config) ==
    DMul(DFromInt(props.sizeNumeric), OrZero(config.sizeMultiplier))

\* currentTotal after the base, population and size steps
totalBeforeFlags(props, config) ==
    LET base == baseSlots(props, config)
        pop == populationContribution(props, config)
        afterPop == IF DGreater(pop, DZero) THEN DAdd(base, pop) ELSE base
        size == sizeContribution(props, config)
    IN  IF DGreater(size, DZero) THEN DAdd(afterPop, size) ELSE afterPop

\* const multiplier = config.flagMultipliers?.[flag.toLowerCase()], as an optional
flagMultiplier(flag, config) ==
    IF config.flagMultipliers # <<>> /\ toLowerCase(flag) \in DOMAIN config.flagMultipliers[1]
    THEN <<config.flagMultipliers[1][toLowerCase(flag)]>>
    ELSE <<>>

\* if (multiplier && multiplier !== 1): undefined and 0 are falsy
flagApplies(flag, config) ==
    /\ flagMultiplier(flag, config) # <<>>
    /\ flagMultiplier(flag, config)[1] # DZero
    /\ flagMultiplier(flag, config)[1] # DFromInt(1)

\* a faulty applyFlag: currentTotal = multiplier
applyFlagAssign(total, flag, config) ==
    IF flagApplies(flag, config) THEN flagMultiplier(flag, config)[1] ELSE total

\* one iteration of flags.forEach on currentTotal
applyFlag(total, flag, config) ==
    IF flagApplies(flag, config) THEN DMul(total, flagMultiplier(flag, config)[1]) ELSE total

\* currentTotal after the first n flags
RECURSIVE totalAfterFlags(_, _, _, _)
totalAfterFlags(total, flags, n, config) ==
    IF n = 0 THEN total
    ELSE applyFlag(totalAfterFlags(total, flags, n - 1, config), flags[n], config)

\* a faulty applyHardCap: no cap
applyHardCapNever(total, config) == total

\* if (typeof hardCap === 'number' && currentTotal > hardCap) currentTotal = hardCap
applyHardCap(total, config) ==
    IF config.hardCap # <<>> /\ DGreater(total, config.hardCap[1])
    THEN config.hardCap[1]
    ELSE total

\* a faulty finalSlots: Math.round(currentTotal)
finalSlotsNoFloor(total) == MathRound(total)

\* Math.max(1, Math.round(currentTotal))
finalSlots(total) == MathMax(1, MathRound(total))

\* currentTotal when the hard cap is reached
preCapTotal(props, config) ==
    totalAfterFlags(totalBeforeFlags(props, config), props.productionCategories,
                    Len(props.productionCategories), config)

\* flags.forEach(...): the rows pushed and currentTotal after the first n flags
RECURSIVE flagSteps(_, _, _, _)
flagSteps(total, flags, n, config) ==
    IF n = 0 THEN [total |-> total, rows |-> <<>>]
    ELSE LET before == flagSteps(total, flags, n - 1, config)
             after == applyFlag(before.total, flags[n], config)
         IN  IF flagApplies(flags[n], config)
             THEN [total |-> after,
                   rows |-> Append(before.rows,
                                   [label |-> "Flag", flag |-> flags[n],
                                    multiplier |-> flagMultiplier(flags[n], config)[1],
                                    current |-> toFixed2(after)])]
             ELSE before

\* the rows from the flag step on, given currentTotal before it
rowsFromFlags(total, flags, config) ==
    LET steps == flagSteps(total, flags, Len(flags), config)
        final == finalSlots(applyHardCap(steps.total, config))
    IN  steps.rows \o << [label |-> "Final slots", slots |-> final,
                          hardCap |-> config.hardCap, current |-> final] >>

\* the rows from the size step on, given currentTotal before it
rowsFromSize(total, size, props, config) ==
    IF DGreater(size, DZero)
    THEN << [label |-> "Size multiplier bonus", amount |-> toFixed2(size),
             current |-> toFixed2(DAdd(total, size))] >>
         \o rowsFromFlags(DAdd(total, size), props.productionCategories, config)
    ELSE rowsFromFlags(total, props.productionCategories, config)

\* the rows from the population step on, given currentTotal before it
rowsFromPopulation(total, pop, props, config) ==
    IF DGreater(pop, DZero)
    THEN << [label |-> "Population contribution", amount |-> toFixed2(pop),
             current |-> toFixed2(DAdd(total, pop))] >>
         \o rowsFromSize(DAdd(total, pop), sizeContribution(props, config), props, config)
    ELSE rowsFromSize(total, sizeContribution(props, config), props, config)

rowsFromBase(base, props, config) ==
    << [label |-> "Base slots by size", baseSlots |-> base, current |-> toFixed2(base)] >>
    \o rowsFromPopulation(base, populationContribution(props, config), props, config)

breakdownRows(props, config) == rowsFromBase(baseSlots(props, config), props, config)

\* a faulty getCargoSlotsCalculationBreakdown: without a cargo slot
\* configuration it calculates with one that has no section
getCargoSlotsCalculationBreakdownDefaults(settlement, season) ==
    IF dataManager = <<>> THEN <<>>
    ELSE IF tradingConfig = <<>> \/ tradingConfig[1].cargoSlots = <<>>
    THEN breakdownRows(getSettlementProperties(settlement),
                       [basePerSize |-> <<>>, populationMultiplier |-> <<>>,
                        sizeMultiplier |-> <<>>, hardCap |-> <<>>, flagMultipliers |-> <<>>])
    ELSE breakdownRows(getSettlementProperties(settlement), tradingConfig[1].cargoSlots[1])

\* helper getCargoSlotsCalculationBreakdown(settlement, season)
getCargoSlotsCalculationBreakdown(settlement, season) ==
    IF dataManager = <<>> \/ tradingConfig = <<>> \/ tradingConfig[1].cargoSlots = <<>>
    THEN <<>>
    ELSE breakdownRows(getSettlementProperties(settlement), tradingConfig[1].cargoSlots[1])

\* a faulty getCargoSlotsFlagMultipliers: no multipliers in winter
getCargoSlotsFlagMultipliersSeasonal(settlement, season) ==
    IF \/ dataManager = <<>> \/ tradingConfig = <<>> \/ tradingConfig[1].cargoSlots = <<>>
       \/ tradingConfig[1].cargoSlots[1].flagMultipliers = <<>>
       \/ season = "winter"
    THEN <<>>
    ELSE LET table == tradingConfig[1].cargoSlots[1].flagMultipliers[1]
             flags == settlement.flags
             kept == SelectSeq([i \in DOMAIN flags |-> i],
                               LAMBDA i : /\ flags[i] \in DOMAIN table
                                          /\ table[flags[i]] # DZero
                                          /\ table[flags[i]] # DFromInt(1))
         IN  [j \in DOMAIN kept |-> [label |-> flags[kept[j]], multiplier |-> table[flags[kept[j]]]]]

\* helper getCargoSlotsFlagMultipliers(settlement, season): settlement.flags as
\* they are, not lower-cased
getCargoSlotsFlagMultipliers(settlement, season) ==
    IF \/ dataManager = <<>> \/ tradingConfig = <<>> \/ tradingConfig[1].cargoSlots = <<>>
       \/ tradingConfig[1].cargoSlots[1].flagMultipliers = <<>>
    THEN <<>>
    ELSE LET table == tradingConfig[1].cargoSlots[1].flagMultipliers[1]
             flags == settlement.flags
             kept == SelectSeq([i \in DOMAIN flags |-> i],
                               LAMBDA i : /\ flags[i] \in DOMAIN table
                                          /\ table[flags[i]] # DZero
                                          /\ table[flags[i]] # DFromInt(1))
         IN  [j \in DOMAIN kept |-> [label |-> flags[kept[j]], multiplier |-> table[flags[kept[j]]]]]

(***************************************************************************)
(* dataManager.calculateCargoSlots(settlement, season) and the helper that *)
(* wraps it.                                                               *)
(***************************************************************************)
\* step 5: multiply by every multiplier that exists and is not 1
RECURSIVE coreAfterFlags(_, _, _, _)
coreAfterFlags(total, flags, n, config) ==
    IF n = 0 THEN total
    ELSE LET before == coreAfterFlags(total, flags, n - 1, config)
             m == flagMultiplier(flags[n], config)
         IN  IF m # <<>> /\ m[1] # DFromInt(1) THEN DMul(before, m[1]) ELSE before

\* DataManager.calculateCargoSlots on a config that is present: steps 1 to 7
dataManagerCalculateCargoSlots(settlement, season, config) ==
    LET props == getSettlementProperties(settlement)
        base == IF config.basePerSize # <<>> /\ props.sizeNumeric \in DOMAIN config.basePerSize[1]
                THEN config.basePerSize[1][props.sizeNumeric]
                ELSE DFromInt(props.sizeNumeric)
        afterPop == DAdd(base, DMul(DFromInt(props.population), OrZero(config.populationMultiplier)))
        afterSize == DAdd(afterPop, DMul(DFromInt(props.sizeNumeric), OrZero(config.sizeMultiplier)))
        afterFlags == coreAfterFlags(afterSize, props.productionCategories,
                                     Len(props.productionCategories), config)
        capped == IF config.hardCap # <<>> /\ DGreater(afterFlags, config.hardCap[1])
                  THEN config.hardCap[1] ELSE afterFlags
    IN  MathMax(1, MathRound(capped))

\* how a call ends: it returns a value or it throws
returned(value) == [threw |-> FALSE, value |-> value]
thrown == [threw |-> TRUE]

\* DataManager.calculateCargoSlots(settlement, season): it throws when the
\* cargo slot configuration is missing
coreCalculateCargoSlots(settlement, season) ==
    IF tradingConfig = <<>> \/ tradingConfig[1].cargoSlots = <<>> THEN thrown
    ELSE returned(dataManagerCalculateCargoSlots(settlement, season,
                                                 tradingConfig[1].cargoSlots[1]))

\* the try block of the helper
tryCalculateCargoSlots(settlement, season) ==
    IF dataManager = <<>> THEN returned(0)
    ELSE coreCalculateCargoSlots(settlement, season)

\* a faulty catch block: it throws the error again
catchCalculateCargoSlotsRethrow(outcome) == outcome

\* the catch block of the helper: console.warn and return 0
catchCalculateCargoSlots(outcome) ==
    IF outcome.threw THEN returned(0) ELSE outcome

\* a faulty calculateCargoSlots: it reads the season setting
calculateCargoSlotsSeasonal(settlement, season) ==
    IF dataManager # <<>> /\ tradingConfig # <<>> /\ tradingConfig[1].cargoSlots # <<>>
       /\ currentSeason = "winter"
    THEN returned(1)
    ELSE catchCalculateCargoSlots(tryCalculateCargoSlots(settlement, season))

\* helper calculateCargoSlots(settlement, season)
calculateCargoSlots(settlement, season) ==
    catchCalculateCargoSlots(tryCalculateCargoSlots(settlement, season))

(***************************************************************************)
(* The source flags of the dataset and the helper that describes one flag. *)
(* A flag definition holds a description and optional effects.             *)
(***************************************************************************)
sContraband == <<"c", "o", "n", "t", "r", "a", "b", "a", "n", "d">>
sMystery == <<"m", "y", "s", "t", "e", "r", "y">>

NoEffects ==
    [description |-> "", supplyTransfer |-> <<>>, demandTransfer |-> <<>>,
     availabilityBonus |-> <<>>, categorySupplyTransfer |-> <<>>,
     categoryDemandTransfer |-> <<>>, contrabandChance |-> <<>>, quality |-> <<>>,
     uiTags |-> <<>>]

\* {trade: {supplyTransfer: 0.1}, contraband: {contrabandChance: 0.2}}
SourceFlagsExample ==
    (sTrade :> [NoEffects EXCEPT !.description = "Trade hub",
                                 !.supplyTransfer = <<Dec(1, 10)>>])
    @@ (sContraband :> [NoEffects EXCEPT !.description = "Contraband",
                                         !.contrabandChance = <<Dec(2, 10)>>])

\* the source flags a dataset holds
DatasetSourceFlags ==
    (sTrade :> [NoEffects EXCEPT
                    !.description = "Trade hub",
                    !.supplyTransfer = <<Dec(1, 10)>>,
                    !.demandTransfer = <<Dec(5, 100)>>,
                    !.availabilityBonus = <<[producers |-> <<Dec(15, 100)>>,
                                             seekers |-> <<Dec(-1, 10)>>]>>,
                    !.quality = <<Dec(11, 10)>>,
                    !.uiTags = << <<"port", "market">> >>])
    @@ (sSmuggling :> [NoEffects EXCEPT
                    !.description = "Smugglers",
                    !.supplyTransfer = <<DZero>>,
                    !.availabilityBonus = <<[producers |-> <<>>, seekers |-> <<DZero>>]>>,
                    !.categorySupplyTransfer =
                        << <<[category |-> "luxury", value |-> Dec(25, 100)],
                             [category |-> "grain", value |-> Dec(-5, 100)]>> >>,
                    !.categoryDemandTransfer =
                        << <<[category |-> "luxury", value |-> Dec(1, 10)]>> >>,
                    !.contrabandChance = <<Dec(2, 10)>>])

\* `${flag} settlement`
genericDescription(flag) == [kind |-> "generic", flag |-> flag]

\* if (value): a number that is present and not 0
truthy(value) == value # <<>> /\ value[1] # DZero

\* Math.round(value * 100)
percent(value) == MathRound(DMul(value, DFromInt(100)))

\* value > 0 ? '+' : ''
signOf(value) == IF DGreater(value, DZero) THEN "+" ELSE ""

\* the lines of Object.entries(transfers).forEach(...)
categoryEffects(transfers, what) ==
    IF transfers = <<>> THEN <<>>
    ELSE [i \in DOMAIN transfers[1] |->
            [effect |-> what, sign |-> signOf(transfers[1][i].value),
             percent |-> percent(transfers[1][i].value),
             category |-> transfers[1][i].category]]

\* the effects list of the tooltip, in the order the helper pushes the lines
flagEffects(flagData) ==
    (IF truthy(flagData.supplyTransfer)
     THEN <<[effect |-> "supply transfer rate", sign |-> "+",
             percent |-> percent(flagData.supplyTransfer[1])]>>
     ELSE <<>>)
    \o (IF truthy(flagData.demandTransfer)
        THEN <<[effect |-> "demand transfer rate", sign |-> "+",
                percent |-> percent(flagData.demandTransfer[1])]>>
        ELSE <<>>)
    \o (IF flagData.availabilityBonus # <<>> /\ truthy(flagData.availabilityBonus[1].producers)
        THEN <<[effect |-> "availability bonus for producers",
                sign |-> signOf(flagData.availabilityBonus[1].producers[1]),
                percent |-> percent(flagData.availabilityBonus[1].producers[1])]>>
        ELSE <<>>)
    \o (IF flagData.availabilityBonus # <<>> /\ truthy(flagData.availabilityBonus[1].seekers)
        THEN <<[effect |-> "availability bonus for seekers",
                sign |-> signOf(flagData.availabilityBonus[1].seekers[1]),
                percent |-> percent(flagData.availabilityBonus[1].seekers[1])]>>
        ELSE <<>>)
    \o categoryEffects(flagData.categorySupplyTransfer, "supply transfer")
    \o categoryEffects(flagData.categoryDemandTransfer, "demand transfer")
    \o (IF truthy(flagData.contrabandChance)
        THEN <<[effect |-> "chance of contraband goods", sign |-> "+",
                percent |-> percent(flagData.contrabandChance[1])]>>
        ELSE <<>>)
    \o (IF truthy(flagData.quality)
        THEN <<[effect |-> "quality multiplier", sign |-> "+",
                percent |-> percent(DAdd(flagData.quality[1], DFromInt(-1)))]>>
        ELSE <<>>)
    \o (IF flagData.uiTags # <<>>
        THEN <<[effect |-> "UI tags", tags |-> flagData.uiTags[1]]>>
        ELSE <<>>)

\* flag.charAt(0).toUpperCase() + flag.slice(1)
capitalize(flag) ==
    IF flag = <<>> THEN <<>> ELSE <<toUpperCaseChar(Head(flag))>> \o Tail(flag)

\* a faulty getFlagDescription: a flag without a definition gets an empty tooltip
getFlagDescriptionEmptyTooltip(flag) ==
    IF dataManager = <<>> \/ dataManager[1].sourceFlags = <<>>
    THEN genericDescription(flag)
    ELSE IF flag \notin DOMAIN dataManager[1].sourceFlags[1]
    THEN [kind |-> "tooltip", title |-> capitalize(flag), description |-> "", effects |-> <<>>]
    ELSE LET flagData == dataManager[1].sourceFlags[1][flag]
         IN  [kind |-> "tooltip", title |-> capitalize(flag),
              description |-> flagData.description, effects |-> flagEffects(flagData)]

\* helper getFlagDescription(flag)
getFlagDescription(flag) ==
    IF dataManager = <<>> \/ dataManager[1].sourceFlags = <<>>
    THEN genericDescription(flag)
    ELSE IF flag \notin DOMAIN dataManager[1].sourceFlags[1]
    THEN genericDescription(flag)
    ELSE LET flagData == dataManager[1].sourceFlags[1][flag]
         IN  [kind |-> "tooltip", title |-> capitalize(flag),
              description |-> flagData.description, effects |-> flagEffects(flagData)]

(***************************************************************************)
(* Initial values shared by the specifications.                            *)
(***************************************************************************)
NoCall == [helper |-> "none"]
NoNotice == [type |-> "none", text |-> "none"]
NoRequest == <<>>

\* ui.notifications.info / warn / error
Notify(type, text) == notice' = [type |-> type, text |-> text]

QuestionsClosed ==
    /\ questions = <<>>
    /\ blockedQuestions = <<>>
    /\ pendingAdds = {}
    /\ loading = {}
    /\ nextId = 0
    /\ countRequests = {}
    /\ categoryCount = <<>>
    /\ formRequest = NoRequest
    /\ version = "current"

HostQuiet ==
    /\ chat = <<>>
    /\ notice = NoNotice

\* no scene controls handed out yet, no user dataset, no dialog open
SettingsClosed ==
    /\ controls = <<>>
    /\ hookLog = <<>>
    /\ userDatasets = <<>>
    /\ datasetData = {}
    /\ deleteDialogs = {}

(***************************************************************************)
(* The rendering of a settlement: the templates invoke the helpers.        *)
(***************************************************************************)
InitCargo ==
    /\ dataManager \in {<<>>, <<[dataset |-> "wfrp4e", sourceFlags |-> <<>>]>>}
    /\ tradingConfig \in (IF dataManager = <<>> THEN {<<>>} ELSE TradingConfigs)
    /\ activeDataset = "wfrp4e"
    /\ currentSeason = "spring"
    /\ chatVisibility = "gm"
    /\ readyPc = (IF dataManager = <<>> THEN "start" ELSE "done")
    /\ rendering \in [settlement : Settlements, season : {currentSeason}]
    /\ call = NoCall
    /\ HostQuiet
    /\ SettingsClosed
    /\ QuestionsClosed

RenderCalculationBreakdown ==
    /\ call' = [helper |-> "getCargoSlotsCalculationBreakdown",
                settlement |-> rendering.settlement, season |-> rendering.season,
                result |-> getCargoSlotsCalculationBreakdown(rendering.settlement,
                                                             rendering.season)]
    /\ UNCHANGED <<moduleVars, rendering, hostVars, questionVars, settingsVars>>

RenderFlagMultipliers ==
    /\ call' = [helper |-> "getCargoSlotsFlagMultipliers",
                settlement |-> rendering.settlement, season |-> rendering.season,
                result |-> getCargoSlotsFlagMultipliers(rendering.settlement, rendering.season)]
    /\ UNCHANGED <<moduleVars, rendering, hostVars, questionVars, settingsVars>>

NextCargo == RenderCalculationBreakdown \/ RenderFlagMultipliers

SpecCargo == InitCargo /\ [][NextCargo]_vars

(***************************************************************************)
(* The same helpers rendered in each season, on the configurations that    *)
(* hold every section.                                                     *)
(***************************************************************************)
SeasonConfigs ==
    {c \in CargoSlotsConfigs :
        /\ c.basePerSize = << (1 :> DFromInt(2)) @@ (3 :> DFromInt(3)) >>
        /\ c.populationMultiplier # <<>>
        /\ c.sizeMultiplier # <<>>}

InitSeason ==
    /\ dataManager = <<[dataset |-> "wfrp4e", sourceFlags |-> <<>>]>>
    /\ tradingConfig \in {<<[cargoSlots |-> <<c>>]>> : c \in SeasonConfigs}
    /\ activeDataset = "wfrp4e"
    /\ currentSeason \in Seasons
    /\ chatVisibility = "gm"
    /\ readyPc = "done"
    /\ rendering \in [settlement : Settlements, season : {currentSeason}]
    /\ call = NoCall
    /\ HostQuiet
    /\ SettingsClosed
    /\ QuestionsClosed

SpecSeason == InitSeason /\ [][NextCargo]_vars

(***************************************************************************)
(* The size and wealth ratings.                                            *)
(***************************************************************************)
MaxSizeLen == 2
MaxNumber == 7

SizeChars == {"c", "s", "t", "v", "f", "m", "x", "C", "S", "T", "V", "F", "M", "X", "3"}

SizeInputs ==
    {Str(str) : str \in UNION {[1..n -> SizeChars] : n \in 0..MaxSizeLen}}
    \cup {Num(n) : n \in (0 - MaxNumber)..MaxNumber} \cup {Undefined}

WealthInputs ==
    {Str(<<>>), Str(<<"3">>), Str(<<"9">>), Str(<<"x">>), Undefined}
    \cup {Num(n) : n \in (0 - MaxNumber)..MaxNumber}

InitRating ==
    /\ dataManager = <<>>
    /\ tradingConfig = <<>>
    /\ activeDataset = "wfrp4e"
    /\ currentSeason = "spring"
    /\ chatVisibility = "gm"
    /\ readyPc = "start"
    /\ rendering \in [size : SizeInputs, wealth : WealthInputs]
    /\ call = NoCall
    /\ HostQuiet
    /\ SettingsClosed
    /\ QuestionsClosed

RenderSizeRating ==
    /\ call' = [helper |-> "getSizeRating", size |-> rendering.size,
                result |-> getSizeRating(rendering.size)]
    /\ UNCHANGED <<moduleVars, rendering, hostVars, questionVars, settingsVars>>

RenderAvailableSlots ==
    /\ call' = [helper |-> "calculateAvailableSlots",
                size |-> rendering.size, wealth |-> rendering.wealth,
                sizeRating |-> getSizeRating(rendering.size),
                wealthRating |-> wealthRating(rendering.wealth),
                result |-> calculateAvailableSlots(rendering.size, rendering.wealth)]
    /\ UNCHANGED <<moduleVars, rendering, hostVars, questionVars, settingsVars>>

NextRating == RenderSizeRating \/ RenderAvailableSlots

SpecRating == InitRating /\ [][NextRating]_vars

(***************************************************************************)
(* The life of the Trading Places module: the 'ready' hook, the settings   *)
(* change handlers and the calculateCargoSlots helper of the templates.    *)
(***************************************************************************)
MaxSeasonMessages == 1

GameUser == "gm1"
GMUsers == {"gm1", "gm2"}

DatasetNames == {"wfrp4e", "custom", "homebrew"}
validDatasets == {"wfrp4e", "custom"}
validSeasons == Seasons
\* the values the season setting is given
SeasonValues == {"spring", "winter", "monsoon"}
ChatVisibilityValues == {"gm", "all"}

\* the cargo slot configuration of the built-in dataset, and that of the
\* dataset "custom", which caps at 5
WfrpCargoSlots ==
    [basePerSize |-> << (1 :> DFromInt(2)) @@ (3 :> DFromInt(3)) >>,
     populationMultiplier |-> <<Dec(1, 1000)>>,
     sizeMultiplier |-> <<Dec(5, 10)>>,
     hardCap |-> <<DFromInt(20)>>,
     flagMultipliers |-> << (sTrade :> Dec(12, 10)) >>]

CustomCargoSlots == [WfrpCargoSlots EXCEPT !.hardCap = <<DFromInt(5)>>]

DatasetTradingConfigs ==
    ("wfrp4e" :> <<[cargoSlots |-> <<WfrpCargoSlots>>]>>)
    @@ ("custom" :> <<[cargoSlots |-> <<CustomCargoSlots>>]>>)

\* the trading configuration a dataset holds
DatasetTradingConfig(name) == DatasetTradingConfigs[name]

LifecycleSettlements ==
    { [size |-> Str(sT), population |-> 1000, flags |-> <<sTrade>>] }

Init ==
    /\ dataManager = <<>>
    /\ tradingConfig = <<>>
    /\ activeDataset \in DatasetNames
    /\ currentSeason = "spring"
    /\ chatVisibility = "gm"
    /\ readyPc = "start"
    /\ rendering \in [settlement : LifecycleSettlements, season : {"spring"}]
    /\ call = NoCall
    /\ HostQuiet
    /\ SettingsClosed
    /\ QuestionsClosed

\* ready hook: initializeCoreComponents()
InitializeCoreComponents ==
    /\ readyPc = "start"
    /\ dataManager' = <<[dataset |-> "none", sourceFlags |-> <<>>]>>
    /\ readyPc' = "components"
    /\ UNCHANGED <<tradingConfig, activeDataset, currentSeason, chatVisibility,
                   renderVars, hostVars, questionVars, settingsVars>>

\* dataManager.switchDataset(name): the dataset and its trading configuration
switchDataset(name) ==
    /\ dataManager' = <<[dataManager[1] EXCEPT !.dataset = name]>>
    /\ tradingConfig' = DatasetTradingConfig(name)

\* ready hook: loadActiveDataset()
LoadActiveDataset ==
    /\ readyPc = "components"
    /\ \/ /\ activeDataset \in validDatasets
          /\ dataManager' = <<[dataManager[1] EXCEPT !.dataset = activeDataset]>>
          /\ readyPc' = "dataset"
          /\ UNCHANGED <<tradingConfig, activeDataset, hostVars>>
       \/ /\ activeDataset # "wfrp4e"
          /\ switchDataset("wfrp4e")
          /\ activeDataset' = "wfrp4e"
          /\ readyPc' = "dataset"
          /\ UNCHANGED hostVars
       \/ /\ readyPc' = "done"
          /\ Notify("error", "Failed to load dataset")
          /\ UNCHANGED <<dataManager, tradingConfig, activeDataset, chat>>
    /\ UNCHANGED <<currentSeason, chatVisibility, renderVars, questionVars, settingsVars>>

\* ready hook: dataManager.loadTradingConfig(), then dataManager.loadSourceFlags();
\* a failure of either is caught and ends the block
LoadTradingConfig ==
    /\ readyPc = "dataset"
    /\ readyPc' = "done"
    /\ \/ /\ tradingConfig' = DatasetTradingConfig(dataManager[1].dataset)
          /\ dataManager' = <<[dataManager[1] EXCEPT !.sourceFlags = <<DatasetSourceFlags>>]>>
       \/ /\ tradingConfig' = DatasetTradingConfig(dataManager[1].dataset)
          /\ UNCHANGED dataManager
       \/ UNCHANGED <<dataManager, tradingConfig>>
    /\ UNCHANGED <<activeDataset, currentSeason, chatVisibility,
                   renderVars, hostVars, questionVars, settingsVars>>

\* the setting changes and its handler onActiveDatasetChange(newValue) runs
OnActiveDatasetChange ==
    \E newValue \in DatasetNames :
        /\ activeDataset' = newValue
        /\ IF newValue \notin validDatasets
           THEN /\ Notify("error", "Dataset validation failed")
                /\ UNCHANGED <<dataManager, tradingConfig>>
           ELSE IF dataManager # <<>>
           THEN \/ /\ switchDataset(newValue)
                   /\ Notify("info", "Switched to dataset")
                \/ /\ Notify("error", "Failed to switch dataset")
                   /\ UNCHANGED <<dataManager, tradingConfig>>
           ELSE UNCHANGED <<dataManager, tradingConfig, notice>>
        /\ UNCHANGED <<currentSeason, chatVisibility, readyPc,
                       renderVars, chat, questionVars, settingsVars>>

\* the setting changes and its handler onCurrentSeasonChange(newValue) runs
OnCurrentSeasonChange ==
    \E newValue \in SeasonValues :
        /\ currentSeason' = newValue
        /\ IF newValue \in validSeasons
           THEN /\ Len(chat) < MaxSeasonMessages
                /\ chat' = Append(chat, [kind |-> "season-change", season |-> newValue,
                                         whisper |-> IF chatVisibility = "gm"
                                                     THEN <<{GameUser}>> ELSE <<>>])
                /\ UNCHANGED notice
           ELSE /\ Notify("error", "Invalid season")
                /\ UNCHANGED chat
        /\ UNCHANGED <<dataManager, tradingConfig, activeDataset, chatVisibility, readyPc,
                       renderVars, questionVars, settingsVars>>

\* the setting changes and its handler onChatVisibilityChange(newValue) runs
OnChatVisibilityChange ==
    \E newValue \in ChatVisibilityValues :
        /\ chatVisibility' = newValue
        /\ Notify("info", "Chat visibility set")
        /\ UNCHANGED <<dataManager, tradingConfig, activeDataset, currentSeason, readyPc,
                       renderVars, chat, questionVars, settingsVars>>

\* a template invokes the helper calculateCargoSlots
RenderCargoSlots ==
    /\ LET outcome == calculateCargoSlots(rendering.settlement, rendering.season)
       IN  call' = [helper |-> "calculateCargoSlots",
                    settlement |-> rendering.settlement, season |-> rendering.season,
                    dataManager |-> dataManager, tradingConfig |-> tradingConfig,
                    repeated |-> call.helper = "calculateCargoSlots",
                    threw |-> outcome.threw,
                    result |-> IF outcome.threw THEN <<>> ELSE outcome.value]
    /\ UNCHANGED <<moduleVars, rendering, hostVars, questionVars, settingsVars>>

Next ==
    \/ InitializeCoreComponents
    \/ LoadActiveDataset
    \/ LoadTradingConfig
    \/ OnActiveDatasetChange
    \/ OnCurrentSeasonChange
    \/ OnChatVisibilityChange
    \/ RenderCargoSlots

Spec == Init /\ [][Next]_vars

(***************************************************************************)
(* The helpers of the settlement templates, rendered on a data manager     *)
(* that may be missing, with or without its trading configuration and its  *)
(* source flags.                                                           *)
(***************************************************************************)
HelperFlagNames == {sTrade, sContraband, sMystery}

HelperSettlements ==
    [size : {Str(sT)}, population : {1000},
     flags : UNION {[1..n -> HelperFlagNames] : n \in 0..MaxFlags}]

\* the argument of getFlagDescription
FlagInputs == {sTrade, sContraband, sSmuggling, sMystery, <<>>}

HelperDataManagers ==
    {<<>>} \cup {<<[dataset |-> "wfrp4e", sourceFlags |-> f]>> :
                    f \in {<<>>, <<SourceFlagsExample>>, <<DatasetSourceFlags>>}}

HelperTradingConfigs ==
    {<<>>, <<[cargoSlots |-> <<>>]>>} \cup {DatasetTradingConfigs[n] : n \in validDatasets}

InitHelpers ==
    /\ dataManager \in HelperDataManagers
    /\ tradingConfig \in (IF dataManager = <<>> THEN {<<>>} ELSE HelperTradingConfigs)
    /\ activeDataset = "wfrp4e"
    /\ currentSeason = "spring"
    /\ chatVisibility = "gm"
    /\ readyPc = (IF dataManager = <<>> THEN "start" ELSE "done")
    /\ rendering \in [settlement : HelperSettlements, season : {currentSeason},
                      flag : FlagInputs]
    /\ call = NoCall
    /\ HostQuiet
    /\ SettingsClosed
    /\ QuestionsClosed

\* a faulty rendering of getFlagDescription: it stores the generic description
\* of an undefined flag among the source flags
RenderFlagDescriptionCaching ==
    /\ call' = [helper |-> "getFlagDescription", flag |-> rendering.flag,
                result |-> getFlagDescription(rendering.flag)]
    /\ IF dataManager # <<>> /\ dataManager[1].sourceFlags # <<>>
          /\ rendering.flag \notin DOMAIN dataManager[1].sourceFlags[1]
       THEN dataManager' = <<[dataManager[1] EXCEPT !.sourceFlags =
                                <<(rendering.flag :> NoEffects) @@ dataManager[1].sourceFlags[1]>>]>>
       ELSE UNCHANGED dataManager
    /\ UNCHANGED <<tradingConfig, activeDataset, currentSeason, chatVisibility, readyPc,
                   rendering, hostVars, questionVars, settingsVars>>

\* a template invokes the helper getFlagDescription
RenderFlagDescription ==
    /\ call' = [helper |-> "getFlagDescription", flag |-> rendering.flag,
                result |-> getFlagDescription(rendering.flag)]
    /\ UNCHANGED <<moduleVars, rendering, hostVars, questionVars, settingsVars>>

NextHelpers ==
    \/ RenderFlagDescription
    \/ RenderCalculationBreakdown
    \/ RenderFlagMultipliers
    \/ RenderCargoSlots

SpecHelpers == InitHelpers /\ [][NextHelpers]_vars

(***************************************************************************)
(* Character Questions: the session list of the current version            *)
(* (src/scripts/character-questions.js) and the form submission of the     *)
(* older one (src/scripts/character-questions-backup.js).                  *)
(***************************************************************************)
MaxIds == 2
MaxPending == 2
MaxChat == 2

\* questions.json as the fetch delivers it; a missing translation is ""
questionsJson ==
    [background |-> << [en |-> "b1", de |-> "b1-de"], [en |-> "b2", de |-> ""] >>,
     secrets |-> << [en |-> "s1", de |-> ""] >>,
     values |-> << >>]

Categories == {"background", "secrets", "values", "society"}
CategoryOrder == <<"background", "secrets", "values", "society">>
Languages == {"en", "de"}

\* questionData[language] || questionData.en
questionText(questionData, language) ==
    IF questionData[language] # "" THEN questionData[language] ELSE questionData.en

Range(seq) == {seq[i] : i \in DOMAIN seq}

\* Array.prototype.includes
includes(seq, x) == \E i \in DOMAIN seq : seq[i] = x

\* game.users.filter(user => user.isGM).map(gm => gm.id)
gmIds == GMUsers

\* a faulty getCategoryCounts: the entries of the session list are not subtracted
getCategoryCountsIgnoringSession(blocked, session) ==
    [category \in Categories |->
        IF category \in DOMAIN questionsJson
        THEN Len(questionsJson[category])
             - Len(SelectSeq(questionsJson[category], LAMBDA q : includes(blocked, q.en)))
        ELSE 0]

\* getCategoryCounts(blockedQuestions), computed on the answer of its fetch
\* with the session list of that moment
getCategoryCounts(blocked, session) ==
    [category \in Categories |->
        IF category \in DOMAIN questionsJson
        THEN Len(questionsJson[category])
             - Len(SelectSeq(questionsJson[category], LAMBDA q : includes(blocked, q.en)))
             - Len(SelectSeq(session, LAMBDA q : q.category = category))
        ELSE 0]

\* the counts getCategoryCounts returns when its fetch fails
zeroCounts == [category \in Categories |-> 0]

\* updateCategoryCounts() up to the await fetch(jsonUrl) of getCategoryCounts:
\* it has read the blocked list.  A badge is read by nothing, so of the calls
\* that were given the same list only the last to be answered matters: they
\* are one element.
updateCategoryCounts(blocked) == countRequests' = countRequests \cup {blocked}

TradingIdle ==
    /\ dataManager = <<>>
    /\ tradingConfig = <<>>
    /\ activeDataset = "wfrp4e"
    /\ currentSeason = "spring"
    /\ chatVisibility = "gm"
    /\ readyPc = "start"
    /\ rendering = [settlement |-> "none", season |-> "none"]
    /\ call = NoCall

Versions == {"current", "backup"}

InitQuestions ==
    /\ TradingIdle
    /\ HostQuiet
    /\ SettingsClosed
    /\ questions = <<>>
    /\ blockedQuestions = <<>>
    /\ pendingAdds = {}
    /\ loading = {}
    /\ nextId = 0
    /\ countRequests = {}
    /\ categoryCount = getCategoryCounts(<<>>, <<>>)
    /\ formRequest = NoRequest
    /\ version \in Versions

\* addQuestion(category) up to its await fetch(jsonUrl)
AddQuestion ==
    \E category \in Categories, language \in Languages :
        /\ version = "current"
        /\ Cardinality(pendingAdds) < MaxPending
        /\ nextId + Cardinality(pendingAdds) < MaxIds
        /\ pendingAdds' = pendingAdds \cup
               {[request |-> CHOOSE n \in 1..MaxPending : \A p \in pendingAdds : p.request # n,
                 category |-> category, language |-> language]}
        /\ loading' = loading \cup {category}
        /\ UNCHANGED <<moduleVars, renderVars, hostVars, questions, blockedQuestions,
                       nextId, countVars, formVars, settingsVars>>

\* a faulty availableQuestions: the questions of the session list stay in
availableQuestionsIgnoringSession(category) ==
    SelectSeq(questionsJson[category], LAMBDA q : ~includes(blockedQuestions, q.en))

\* a faulty availableQuestions: the blocked questions stay in
availableQuestionsIgnoringBlocked(category) ==
    LET currentCategoryQuestions == SelectSeq(questions, LAMBDA q : q.category = category)
    IN  SelectSeq(questionsJson[category],
                  LAMBDA q : ~\E i \in DOMAIN currentCategoryQuestions :
                                currentCategoryQuestions[i].questionData.en = q.en)

\* the questions addQuestion draws from
availableQuestions(category) ==
    LET unblocked == SelectSeq(questionsJson[category], LAMBDA q : ~includes(blockedQuestions, q.en))
        currentCategoryQuestions == SelectSeq(questions, LAMBDA q : q.category = category)
    IN  SelectSeq(unblocked, LAMBDA q : ~\E i \in DOMAIN currentCategoryQuestions :
                                        currentCategoryQuestions[i].questionData.en = q.en)

\* a faulty finally block: the class stays on the button
removeLoadingNever(category) == UNCHANGED loading

\* finally: button.removeClass('loading')
removeLoading(category) == loading' = loading \ {category}

\* addQuestion(category) from the answer of its fetch to its end
AddQuestionFetched ==
    \E p \in pendingAdds :
        /\ pendingAdds' = pendingAdds \ {p}
        /\ removeLoading(p.category)
        /\ \/ /\ Notify("error", "Error adding question")
              /\ UNCHANGED <<questions, nextId, countRequests>>
           \/ /\ p.category \in DOMAIN questionsJson
              /\ Len(questionsJson[p.category]) > 0
              /\ availableQuestions(p.category) = <<>>
              /\ Notify("warn", "No more unique questions available")
              /\ UNCHANGED <<questions, nextId, countRequests>>
           \/ /\ p.category \in DOMAIN questionsJson
              /\ \E questionData \in Range(availableQuestions(p.category)) :
                    questions' = << [id |-> nextId + 1, category |-> p.category,
                                     question |-> questionText(questionData, p.language),
                                     questionData |-> questionData] >> \o questions
              /\ nextId' = nextId + 1
              /\ updateCategoryCounts(blockedQuestions)
              /\ UNCHANGED notice
           \/ /\ ~(p.category \in DOMAIN questionsJson /\ Len(questionsJson[p.category]) > 0)
              /\ Notify("warn", "No questions available")
              /\ UNCHANGED <<questions, nextId, countRequests>>
        /\ UNCHANGED <<moduleVars, renderVars, chat, blockedQuestions, categoryCount, formVars, settingsVars>>

\* this.questions.filter(q => q.id !== questionId)
withoutQuestion(questionId) == SelectSeq(questions, LAMBDA q : q.id # questionId)

DeleteQuestion ==
    \E i \in DOMAIN questions :
        /\ version = "current"
        /\ questions' = withoutQuestion(questions[i].id)
        /\ updateCategoryCounts(blockedQuestions)
        /\ UNCHANGED <<moduleVars, renderVars, hostVars, blockedQuestions, pendingAdds,
                       loading, nextId, categoryCount, formVars, settingsVars>>

\* the message sendQuestionToChat creates
questionMessage(question) ==
    [kind |-> "question", user |-> GameUser, whisper |-> <<>>,
     category |-> question.category, text |-> question.question]

SendQuestionToChat ==
    \E i \in DOMAIN questions :
        /\ version = "current"
        /\ Len(chat) < MaxChat
        /\ chat' = Append(chat, questionMessage(questions[i]))
        /\ Notify("info", "Question sent to chat!")
        /\ UNCHANGED <<moduleVars, renderVars, questionVars, settingsVars>>

BlockQuestion ==
    \E i \in DOMAIN questions :
        /\ version = "current"
        /\ IF ~includes(blockedQuestions, questions[i].questionData.en)
           THEN /\ blockedQuestions' = Append(blockedQuestions, questions[i].questionData.en)
                /\ Notify("info", "Question blocked from future appearances.")
           ELSE UNCHANGED <<blockedQuestions, notice>>
        /\ questions' = withoutQuestion(questions[i].id)
        /\ updateCategoryCounts(blockedQuestions')
        /\ UNCHANGED <<moduleVars, renderVars, chat, pendingAdds, loading, nextId,
                       categoryCount, formVars, settingsVars>>

\* a faulty unblockQuestion: blockedQuestions.splice(index), which removes
\* the text and every text after it
UnblockQuestionSpliceRest ==
    \E i \in DOMAIN blockedQuestions :
        /\ version = "current"
        /\ \A j \in 1..(i - 1) : blockedQuestions[j] # blockedQuestions[i]
        /\ blockedQuestions' = SubSeq(blockedQuestions, 1, i - 1)
        /\ Notify("info", "Question unblocked.")
        /\ updateCategoryCounts(blockedQuestions')
        /\ UNCHANGED <<moduleVars, renderVars, chat, questions, pendingAdds, loading,
                       nextId, categoryCount, formVars, settingsVars>>

\* blockedQuestions.splice(blockedQuestions.indexOf(questionText), 1)
UnblockQuestion ==
    \E i \in DOMAIN blockedQuestions :
        /\ version = "current"
        /\ \A j \in 1..(i - 1) : blockedQuestions[j] # blockedQuestions[i]
        /\ blockedQuestions' = SubSeq(blockedQuestions, 1, i - 1)
                               \o SubSeq(blockedQuestions, i + 1, Len(blockedQuestions))
        /\ Notify("info", "Question unblocked.")
        /\ updateCategoryCounts(blockedQuestions')
        /\ UNCHANGED <<moduleVars, renderVars, chat, questions, pendingAdds, loading,
                       nextId, categoryCount, formVars, settingsVars>>

ClearAllQuestions ==
    /\ version = "current"
    /\ questions' = <<>>
    /\ updateCategoryCounts(blockedQuestions)
    /\ UNCHANGED <<moduleVars, renderVars, hostVars, blockedQuestions, pendingAdds,
                   loading, nextId, categoryCount, formVars, settingsVars>>

\* updateCategoryCounts() from the answer of its fetch to its end: the counts
\* of the blocked list it was given and of the session list as it is now, or
\* zeros when the fetch failed, are written to the badges
CategoryCountsFetched ==
    \E blocked \in countRequests :
        /\ countRequests' = countRequests \ {blocked}
        /\ \/ categoryCount' = getCategoryCounts(blocked, questions)
           \/ categoryCount' = zeroCounts
        /\ UNCHANGED <<moduleVars, renderVars, hostVars, questions, blockedQuestions,
                       pendingAdds, loading, nextId, formVars, settingsVars>>

(***************************************************************************)
(* The older version: _updateObject(event, formData) posts the questions   *)
(* of the selected categories straight to the chat.                        *)
(***************************************************************************)
\* Math.max(Math.min(parseInt(formData.numQuestions) || 1, 10), 1)
clampNumQuestions(raw) ==
    LET n == IF raw = 0 THEN 1 ELSE raw
    IN  IF n > 10 THEN 10 ELSE IF n < 1 THEN 1 ELSE n

warningMessage(category, numQuestions, available) ==
    [kind |-> "warning", user |-> GameUser, whisper |-> <<gmIds>>,
     category |-> category, requested |-> numQuestions, available |-> available]

formQuestionMessage(category, item, language) ==
    [kind |-> "question", user |-> GameUser, whisper |-> <<gmIds>>,
     category |-> category, text |-> questionText(item, language)]

\* the runs of the inner loop: the messages of k draws from items, and
\* whether a draw from the emptied list threw
RECURSIVE drawQuestions(_, _, _, _)
drawQuestions(items, k, category, language) ==
    IF k = 0 THEN {[messages |-> <<>>, threw |-> FALSE]}
    ELSE IF items = {} THEN {[messages |-> <<>>, threw |-> TRUE]}
    ELSE UNION { { [messages |-> <<formQuestionMessage(category, item, language)>> \o rest.messages,
                    threw |-> rest.threw] :
                   rest \in drawQuestions(items \ {item}, k - 1, category, language) } :
                 item \in items }

\* the runs of the loop over the selected categories from position i on
RECURSIVE postCategories(_, _, _, _)
postCategories(selected, i, numQuestions, language) ==
    IF i > Len(selected) THEN {[messages |-> <<>>, threw |-> FALSE]}
    ELSE IF selected[i] \notin DOMAIN questionsJson
    THEN postCategories(selected, i + 1, numQuestions, language)
    ELSE LET category == selected[i]
             items == questionsJson[category]
             warning == IF numQuestions > Len(items)
                        THEN <<warningMessage(category, numQuestions, Len(items))>>
                        ELSE <<>>
         IN  UNION { IF here.threw
                     THEN {[messages |-> warning \o here.messages, threw |-> TRUE]}
                     ELSE { [messages |-> warning \o here.messages \o rest.messages,
                             threw |-> rest.threw] :
                            rest \in postCategories(selected, i + 1, numQuestions, language) } :
                     here \in drawQuestions(Range(items), numQuestions, category, language) }

NumQuestionsInputs == {0, 1, 2, 11}

\* _updateObject up to its await fetch(jsonUrl)
SubmitForm ==
    \E selected \in SUBSET Categories, raw \in NumQuestionsInputs, language \in Languages :
        /\ version = "backup"
        /\ formRequest = NoRequest
        /\ formRequest' = << [selectedCategories |-> SelectSeq(CategoryOrder, LAMBDA c : c \in selected),
                              numQuestions |-> clampNumQuestions(raw),
                              language |-> language] >>
        /\ UNCHANGED <<moduleVars, renderVars, hostVars, questions, blockedQuestions,
                       pendingAdds, loading, nextId, countVars, version, settingsVars>>

\* _updateObject from the answer of its fetch to its end
FormFetched ==
    /\ formRequest # NoRequest
    /\ formRequest' = NoRequest
    /\ \/ /\ Notify("error", "Error generating questions")
          /\ UNCHANGED chat
       \/ \E run \in postCategories(formRequest[1].selectedCategories, 1,
                                    formRequest[1].numQuestions, formRequest[1].language) :
             /\ Len(chat) + Len(run.messages) <= MaxChat
             /\ chat' = chat \o run.messages
             /\ IF run.threw THEN Notify("error", "Error generating questions")
                ELSE UNCHANGED notice
    /\ UNCHANGED <<moduleVars, renderVars, questions, blockedQuestions, pendingAdds,
                   loading, nextId, countVars, version, settingsVars>>

NextQuestions ==
    \/ AddQuestion
    \/ AddQuestionFetched
    \/ DeleteQuestion
    \/ SendQuestionToChat
    \/ BlockQuestion
    \/ UnblockQuestion
    \/ ClearAllQuestions
    \/ CategoryCountsFetched
    \/ SubmitForm
    \/ FormFetched

SpecQuestions == InitQuestions /\ [][NextQuestions]_vars

(***************************************************************************)
(* The scene-controls hook of both add-ons and the dataset management      *)
(* dialogs of the Trading Places settings page.  The host's settings store *)
(* is a key/value store: get returns the stored value, set replaces it or  *)
(* is rejected by the host.                                                *)
(***************************************************************************)
MaxFirings == 5
MaxInputLen == 2
MaxDatasets == 2
MaxDialogs == 2

\* the controls the host itself puts on the list
CoreControls == <<"token", "notes">>

\* a faulty hook: the control is pushed without looking for it
addControlAlways(list, name) == Append(list, name)

\* controls.find(c => c.name === name): return when found, else controls.push
addControl(list, name) == IF includes(list, name) THEN list ELSE Append(list, name)

\* the handler of the scene-controls hook, fired on the controls list
SceneControlsHook(name) ==
    /\ Len(hookLog) < MaxFirings
    /\ controls' = addControl(controls, name)
    /\ hookLog' = Append(hookLog,
                         [control |-> name,
                          logged |-> IF includes(controls, name)
                                     THEN "already exists, skipping duplicate"
                                     ELSE "added successfully"])
    /\ UNCHANGED <<moduleVars, renderVars, hostVars, questionVars,
                   userDatasets, datasetData, deleteDialogs>>

CharacterQuestionsControlsHook == SceneControlsHook("character-questions")

TradingPlacesControlsHook == SceneControlsHook("trading-places")

\* what is typed into #new-dataset-name, in pieces: blanks, words of
\* letters and digits, and a character the name pattern does not allow
InputChunks == {" ", "wfrp4e", "a", "!"}
TypedInputs == UNION {[1..n -> InputChunks] : n \in 0..MaxInputLen}

\* String.prototype.trim
RECURSIVE trim(_)
trim(typed) ==
    IF typed = <<>> THEN typed
    ELSE IF Head(typed) = " " THEN trim(Tail(typed))
    ELSE IF typed[Len(typed)] = " " THEN trim(SubSeq(typed, 1, Len(typed) - 1))
    ELSE typed

\* /^[a-zA-Z0-9_-]+$/.test(datasetName)
wellFormed(datasetName) ==
    /\ datasetName # <<>>
    /\ \A i \in DOMAIN datasetName : datasetName[i] \notin {" ", "!"}

\* the string the pieces spell
RECURSIVE spelled(_)
spelled(datasetName) ==
    IF datasetName = <<>> THEN "" ELSE Head(datasetName) \o spelled(Tail(datasetName))

datasetNotice(type, text, datasetName) ==
    [type |-> type, text |-> text, dataset |-> datasetName]

\* the settings the dialogs read and write
store == [userDatasets |-> userDatasets, datasetData |-> datasetData]

\* what a call leaves behind: the settings, the last notification (<<>> when
\* none was shown), and whether it threw
outcome(settings, shown, threw) == [store |-> settings, shown |-> shown, threw |-> threw]

SetFailures == {"none", "list", "data", "handler"}

\* createDataset(datasetName); rejected names the game.settings.set the host rejects
createDataset(settings, datasetName, rejected) ==
    LET listed == IF includes(settings.userDatasets, datasetName)
                  THEN settings.userDatasets
                  ELSE Append(settings.userDatasets, datasetName)
        afterList == [settings EXCEPT !.userDatasets = listed]
    IN  IF listed # settings.userDatasets /\ rejected = "list"
        THEN outcome(settings, <<>>, TRUE)
        ELSE IF rejected = "data"
        THEN outcome(afterList, <<>>, TRUE)
        ELSE outcome([afterList EXCEPT !.datasetData = @ \cup {datasetName}],
                     <<datasetNotice("info", "created with placeholder data", datasetName)>>,
                     FALSE)

\* a faulty check: a name already on the list is let through
nameRejectionIgnoringExisting(datasetName, existingDatasets) ==
    IF datasetName = <<>> THEN "Dataset name cannot be empty"
    ELSE IF ~wellFormed(datasetName)
    THEN "Dataset name can only contain letters, numbers, hyphens, and underscores"
    ELSE ""

\* the checks of the yes callback of handleCreateDataset: the error shown, or ""
nameRejection(datasetName, existingDatasets) ==
    IF datasetName = <<>> THEN "Dataset name cannot be empty"
    ELSE IF ~wellFormed(datasetName)
    THEN "Dataset name can only contain letters, numbers, hyphens, and underscores"
    ELSE IF includes(existingDatasets, spelled(datasetName))
    THEN "A dataset with this name already exists"
    ELSE ""

\* the yes callback of the 'Create New Dataset' dialog
handleCreateDataset(settings, typed, rejected) ==
    LET datasetName == trim(typed)
        existingDatasets == settings.userDatasets
        error == nameRejection(datasetName, existingDatasets)
    IN  IF error # ""
        THEN outcome(settings, <<[type |-> "error", text |-> error]>>, FALSE)
        ELSE LET name == spelled(datasetName)
                 created == createDataset(settings, name, rejected)
                 failed == <<datasetNotice("error", "Failed to create dataset", name)>>
             IN  IF created.threw THEN outcome(created.store, failed, FALSE)
                 ELSE IF rejected = "handler" THEN outcome(created.store, failed, FALSE)
                 ELSE outcome([created.store EXCEPT
                                  !.userDatasets = Append(existingDatasets, name)],
                              <<datasetNotice("info", "created successfully", name)>>,
                              FALSE)

\* getAvailableDatasets(): the keys in their order, and the label of each
availableKeys ==
    <<"wfrp4e">> \o SelectSeq(userDatasets, LAMBDA name : name # "wfrp4e")

getAvailableDatasets ==
    [name \in Range(availableKeys) |->
        IF includes(userDatasets, name) THEN name \o " (User)" ELSE "WFRP4e (Built-in)"]

\* deleteDataset(datasetName): it catches what its writes throw
deleteDataset(settings, datasetName, rejected) ==
    IF datasetName = "wfrp4e"
    THEN outcome(settings, <<[type |-> "error", text |-> "Cannot delete built-in datasets"]>>, FALSE)
    ELSE LET updatedDatasets == SelectSeq(settings.userDatasets, LAMBDA name : name # datasetName)
             afterList == [settings EXCEPT !.userDatasets = updatedDatasets]
             failed == <<datasetNotice("error", "Failed to delete dataset", datasetName)>>
         IN  IF rejected = "list" THEN outcome(settings, failed, FALSE)
             ELSE IF rejected = "data" THEN outcome(afterList, failed, FALSE)
             ELSE outcome([afterList EXCEPT !.datasetData = @ \ {datasetName}],
                          <<datasetNotice("info", "deleted successfully", datasetName)>>,
                          FALSE)

\* the yes callback of the 'Confirm Dataset Deletion' dialog
confirmDeleteDataset(settings, datasetToDelete, rejected) ==
    LET deleted == deleteDataset(settings, datasetToDelete, rejected)
        updatedList == SelectSeq(deleted.store.userDatasets,
                                 LAMBDA name : name # datasetToDelete)
    IN  IF rejected = "handler"
        THEN outcome(deleted.store,
                     <<datasetNotice("error", "Failed to delete dataset", datasetToDelete)>>,
                     FALSE)
        ELSE outcome([deleted.store EXCEPT !.userDatasets = updatedList],
                     <<datasetNotice("info", "deleted successfully", datasetToDelete)>>,
                     FALSE)

\* the settings and the notification a callback leaves
leave(result) ==
    /\ userDatasets' = result.store.userDatasets
    /\ datasetData' = result.store.datasetData
    /\ notice' = IF result.shown = <<>> THEN notice ELSE result.shown[1]

\* the Add Dataset button, the dialog and its yes callback
HandleCreateDataset ==
    \E typed \in TypedInputs, rejected \in SetFailures :
        /\ Len(userDatasets) < MaxDatasets
        /\ leave(handleCreateDataset(store, typed, rejected))
        /\ UNCHANGED <<moduleVars, renderVars, chat, questionVars,
                       controls, hookLog, deleteDialogs>>

\* the Delete Selected Dataset button up to the confirmation dialog
HandleDeleteDataset ==
    LET candidates == SelectSeq(availableKeys,
                                LAMBDA key : key \o " (User)" = getAvailableDatasets[key])
    IN  IF Len(candidates) = 0
        THEN /\ Notify("warn", "No user-created datasets to delete")
             /\ UNCHANGED <<moduleVars, renderVars, chat, questionVars, settingsVars>>
        ELSE \E datasetToDelete \in Range(candidates) :
                /\ Cardinality(deleteDialogs \cup {datasetToDelete}) <= MaxDialogs
                /\ deleteDialogs' = deleteDialogs \cup {datasetToDelete}
                /\ UNCHANGED <<moduleVars, renderVars, hostVars, questionVars,
                               controls, hookLog, userDatasets, datasetData>>

\* yes in the confirmation dialog
ConfirmDeleteDataset ==
    \E datasetToDelete \in deleteDialogs, rejected \in SetFailures :
        /\ deleteDialogs' = deleteDialogs \ {datasetToDelete}
        /\ leave(confirmDeleteDataset(store, datasetToDelete, rejected))
        /\ UNCHANGED <<moduleVars, renderVars, chat, questionVars, controls, hookLog>>

\* no in the confirmation dialog
CancelDeleteDataset ==
    \E datasetToDelete \in deleteDialogs :
        /\ deleteDialogs' = deleteDialogs \ {datasetToDelete}
        /\ UNCHANGED <<moduleVars, renderVars, hostVars, questionVars,
                       controls, hookLog, userDatasets, datasetData>>

\* the scene controls: the host hands its list to the hook
InitControls ==
    /\ TradingIdle
    /\ HostQuiet
    /\ QuestionsClosed
    /\ controls \in {SubSeq(CoreControls, 1, n) : n \in 0..Len(CoreControls)}
    /\ hookLog = <<>>
    /\ userDatasets = <<>>
    /\ datasetData = {}
    /\ deleteDialogs = {}

NextControls ==
    \/ CharacterQuestionsControlsHook
    \/ TradingPlacesControlsHook

SpecControls == InitControls /\ [][NextControls]_vars

\* the settings page: no user dataset yet
InitSettings ==
    /\ TradingIdle
    /\ HostQuiet
    /\ QuestionsClosed
    /\ SettingsClosed

NextSettings ==
    \/ HandleCreateDataset
    \/ HandleDeleteDataset
    \/ ConfirmDeleteDataset
    \/ CancelDeleteDataset

SpecSettings == InitSettings /\ [][NextSettings]_vars

(***************************************************************************)
(* Properties of the cargo slot calculation, checked under SpecCargo on    *)
(* the invocations of getCargoSlotsCalculationBreakdown that ran: call     *)
(* holds the settlement it was given and the rows it returned.             *)
(***************************************************************************)
BreakdownCalled ==
    /\ call.helper = "getCargoSlotsCalculationBreakdown"
    /\ call.result # <<>>

callProps == getSettlementProperties(call.settlement)
callConfig == tradingConfig[1].cargoSlots[1]
callFinal == call.result[Len(call.result)].slots
callFlagRows == SelectSeq(call.result, LAMBDA row : row.label = "Flag")

\* the running total the specification states before the flags: base, plus
\* population * populationMultiplier, plus sizeNumeric * sizeMultiplier
StatedTotalBeforeFlags(props, config) ==
    LET base == IF config.basePerSize # <<>> /\ props.sizeNumeric \in DOMAIN config.basePerSize[1]
                THEN config.basePerSize[1][props.sizeNumeric]
                ELSE DFromInt(props.sizeNumeric)
    IN  DAdd(DAdd(base, DMul(DFromInt(props.population), OrZero(config.populationMultiplier))),
             DMul(DFromInt(props.sizeNumeric), OrZero(config.sizeMultiplier)))

\* the flags the specification lets multiply: the entry exists and is not 1
StatedFlagApplies(flag, config) ==
    /\ config.flagMultipliers # <<>>
    /\ toLowerCase(flag) \in DOMAIN config.flagMultipliers[1]
    /\ config.flagMultipliers[1][toLowerCase(flag)] # DFromInt(1)

\* the running total after the first n flags as the specification states it
RECURSIVE StatedTotalAfterFlags(_, _, _, _)
StatedTotalAfterFlags(total, flags, n, config) ==
    IF n = 0 THEN total
    ELSE LET before == StatedTotalAfterFlags(total, flags, n - 1, config)
         IN  IF StatedFlagApplies(flags[n], config)
             THEN DMul(before, config.flagMultipliers[1][toLowerCase(flags[n])])
             ELSE before

\* max(1, round(min(hardCap, total)))
StatedFinal(total, config) ==
    MathMax(1, MathRound(IF config.hardCap # <<>> /\ DGreater(total, config.hardCap[1])
                         THEN config.hardCap[1] ELSE total))

\* C1: the final slot count of every calculation that ran equals
\* max(1, round(min(hardCap, (base + population*populationMultiplier +
\* sizeNumeric*sizeMultiplier) * the multipliers of the settlement's flags))),
\* the multipliers being those whose entry exists and is not 1.
C1_FinalSlotsFormula ==
    BreakdownCalled =>
        callFinal = StatedFinal(
            StatedTotalAfterFlags(StatedTotalBeforeFlags(callProps, callConfig),
                                  callProps.productionCategories,
                                  Len(callProps.productionCategories), callConfig),
            callConfig)

\* C3: the final slot count of every calculation that ran is an integer >= 1.
C3_FinalAtLeastOne ==
    BreakdownCalled => (callFinal \in Nat /\ callFinal >= 1)

\* a calculation with base 0 whose total, 1.0, is capped at 0.4: round gives 0
C3_Witness ==
    /\ BreakdownCalled
    /\ call.settlement.size = Str(sXX)
    /\ call.settlement.population = 1000
    /\ call.result[1].baseSlots = DZero
    /\ callConfig.hardCap = <<Dec(4, 10)>>
    /\ callFinal = 1

\* C4: when the running total before capping exceeds a numeric hardCap H, the
\* final slot count is max(1, round(H)).
C4_HardCapReached ==
    (/\ BreakdownCalled
     /\ callConfig.hardCap # <<>>
     /\ DGreater(preCapTotal(callProps, callConfig), callConfig.hardCap[1]))
    => callFinal = MathMax(1, MathRound(callConfig.hardCap[1]))

\* size "T", population 1000, flags ["trade"]: 6.60 before the cap of 5, final 5
C4_Witness ==
    /\ BreakdownCalled
    /\ call.settlement = [size |-> Str(sT), population |-> 1000, flags |-> <<sTrade>>]
    /\ callConfig.hardCap = <<DFromInt(5)>>
    /\ toFixed2(preCapTotal(callProps, callConfig)) = 660
    /\ callFinal = 5

\* C7: in the flag step every flag whose entry exists and differs from 1,
\* 0 and values below 1 included, multiplies the running total by its entry,
\* in list order; the other flags leave it alone.  So the rows of the flag
\* step are those flags with their entries, and the final slot count comes
\* from the total so multiplied.
C7_FlagStepMultiplies ==
    BreakdownCalled =>
        LET flags == callProps.productionCategories
            stated == SelectSeq(flags, LAMBDA flag : StatedFlagApplies(flag, callConfig))
        IN  /\ Len(callFlagRows) = Len(stated)
            /\ \A i \in DOMAIN stated :
                   /\ i \in DOMAIN callFlagRows
                   /\ callFlagRows[i].flag = stated[i]
                   /\ callFlagRows[i].multiplier = callConfig.flagMultipliers[1][stated[i]]
            /\ callFinal = StatedFinal(
                   StatedTotalAfterFlags(totalBeforeFlags(callProps, callConfig), flags,
                                         Len(flags), callConfig),
                   callConfig)

\* the settlement of the call with its two flags in the other order
swappedSettlement ==
    [call.settlement EXCEPT !.flags = <<call.settlement.flags[2], call.settlement.flags[1]>>]

swappedRows == getCargoSlotsCalculationBreakdown(swappedSettlement, call.season)
swappedFinal == swappedRows[Len(swappedRows)].slots

TwoFlagsCalled == BreakdownCalled /\ Len(call.settlement.flags) = 2

\* C8 as stated: swapping the two flags of a settlement yields the same final
\* slot count.
C8_SwapSameFinal ==
    TwoFlagsCalled => swappedFinal = callFinal

\* C8: swapping the two flags of a settlement yields a final slot count that
\* differs by at most 1, and the same one unless both flags multiply.
C8_SwapWithinOne ==
    TwoFlagsCalled =>
        /\ swappedFinal - callFinal \in {0 - 1, 0, 1}
        /\ Len(callFlagRows) < 2 => swappedFinal = callFinal

\* 6 * 0.7 * 2.5 = 10.499999999999998 rounds to 10, 6 * 2.5 * 0.7 = 10.5 to 11
C8_Witness ==
    /\ TwoFlagsCalled
    /\ call.settlement = [size |-> Num(6), population |-> 0, flags |-> <<sTrade, sMineCapital>>]
    /\ Len(callFlagRows) = 2
    /\ callFinal = 10
    /\ swappedFinal = 11

OnlyBasePerSize(config) ==
    /\ config.basePerSize # <<>>
    /\ config.populationMultiplier = <<>>
    /\ config.sizeMultiplier = <<>>
    /\ config.hardCap = <<>>
    /\ config.flagMultipliers = <<>>

StatedSizeTable ==
    (<<"c", "s">> :> 5) @@ (<<"c">> :> 4) @@ (<<"t">> :> 3) @@ (<<"s", "t">> :> 2) @@
    (<<"v">> :> 1) @@ (<<"f">> :> 1) @@ (<<"m">> :> 5)

\* C5: a size code of the table, in any letter case, has the rating of the
\* table; any other string and a missing size have 1; a number n has n, or 1
\* when n is 0.
C5_SizeRatingTable ==
    call.helper = "getSizeRating" =>
        call.result =
            IF call.size.t = "string"
            THEN (IF toLowerCase(call.size.str) \in DOMAIN StatedSizeTable
                  THEN StatedSizeTable[toLowerCase(call.size.str)] ELSE 1)
            ELSE IF call.size.t = "number"
            THEN (IF call.size.num = 0 THEN 1 ELSE call.size.num)
            ELSE 1

\* the code "cs" in lower case has the rating 5
C5_Witness ==
    /\ call.helper = "getSizeRating"
    /\ call.size = Str(<<"c", "s">>)
    /\ call.result = 5

RatingCalled == call.helper \in {"getSizeRating", "calculateAvailableSlots"}

callSizeRating ==
    IF call.helper = "getSizeRating" THEN call.result ELSE call.sizeRating

SameArguments ==
    /\ call.helper = "calculateCargoSlots"
    /\ call'.helper = "calculateCargoSlots"
    /\ call'.settlement = call.settlement
    /\ call'.season = call.season

C2_QuestionsWhisperedToGM ==
    \A i \in DOMAIN chat :
        chat[i].kind = "question" => chat[i].whisper = <<GMUsers>>

(***************************************************************************)
(* Properties of the helpers across the seasons, checked under SpecSeason. *)
(***************************************************************************)
\* C11: the breakdown, with its final slot count, and the flag multiplier
\* list that a helper returned for the season it was given are those it
\* returns for each of spring, summer, autumn and winter.
C11_SeasonIndependent ==
    /\ call.helper = "getCargoSlotsCalculationBreakdown" =>
           \A season \in Seasons :
               getCargoSlotsCalculationBreakdown(call.settlement, season) = call.result
    /\ call.helper = "getCargoSlotsFlagMultipliers" =>
           \A season \in Seasons :
               getCargoSlotsFlagMultipliers(call.settlement, season) = call.result

\* the flag multiplier list of a trade settlement rendered in winter
C11_Witness ==
    /\ call.helper = "getCargoSlotsFlagMultipliers"
    /\ call.season = "winter"
    /\ call.settlement.flags = <<sTrade, sTrade>>
    /\ Len(call.result) = 2

\* C12: a helper invocation leaves its inputs as they were: the settlement
\* being rendered with its flag list, the trading configuration and the data
\* manager with its source flag definitions.
C12_HelpersLeaveInputs ==
    [][call' # call =>
           /\ rendering' = rendering
           /\ tradingConfig' = tradingConfig
           /\ dataManager' = dataManager]_vars

\* the description of an undefined flag was rendered for a settlement with
\* two flags, on loaded source flags and a loaded trading configuration
C12_Witness ==
    /\ call.helper = "getFlagDescription"
    /\ call.flag = sMystery
    /\ dataManager # <<>>
    /\ dataManager[1].sourceFlags = <<DatasetSourceFlags>>
    /\ tradingConfig # <<>>
    /\ rendering.settlement.flags = <<sTrade, sContraband>>

\* C13: the helper calculateCargoSlots ends by returning, never by throwing,
\* and it returns 0 when there is no data manager and when the calculation
\* of the data manager throws.
C13_HelperNeverThrows ==
    call.helper = "calculateCargoSlots" =>
        /\ ~call.threw
        /\ (call.dataManager = <<>>
            \/ coreCalculateCargoSlots(call.settlement, call.season).threw)
           => call.result = 0

\* the helper ran on a data manager whose calculation throws
C13_Witness ==
    /\ call.helper = "calculateCargoSlots"
    /\ call.dataManager # <<>>
    /\ coreCalculateCargoSlots(call.settlement, call.season).threw
    /\ ~call.threw
    /\ call.result = 0

\* the cargo slot configuration is entirely absent
ConfigAbsent ==
    dataManager = <<>> \/ tradingConfig = <<>> \/ tradingConfig[1].cargoSlots = <<>>

\* C14 as stated: without a cargo slot configuration a calculation signals
\* an error: it returns neither an empty result nor a number.
C14_AbsentConfigFailsFast ==
    ConfigAbsent =>
        /\ call.helper \in {"getCargoSlotsCalculationBreakdown",
                            "getCargoSlotsFlagMultipliers"} => call.result # <<>>
        /\ call.helper = "calculateCargoSlots" => call.threw

\* C14: without a cargo slot configuration no helper signals an error: the
\* breakdown and the flag multiplier list are empty and calculateCargoSlots
\* returns a number.
C14_AbsentConfigFallsBack ==
    ConfigAbsent =>
        /\ call.helper \in {"getCargoSlotsCalculationBreakdown",
                            "getCargoSlotsFlagMultipliers"} => call.result = <<>>
        /\ call.helper = "calculateCargoSlots" => ~call.threw /\ call.result \in Nat

\* the breakdown was rendered on a data manager without a cargo slot
\* configuration
C14_Witness ==
    /\ call.helper = "getCargoSlotsCalculationBreakdown"
    /\ dataManager # <<>>
    /\ tradingConfig = <<[cargoSlots |-> <<>>]>>
    /\ Len(call.settlement.flags) = 2
    /\ call.result = <<>>

callLabels == {call.result[i].label : i \in DOMAIN call.result}

\* C15: on a cargo slot configuration that is present the calculation
\* returns rows ending in a final slot count, whichever sections the
\* configuration lacks: without populationMultiplier there is no population
\* row, without sizeMultiplier no size row, without flagMultipliers no flag
\* row, without hardCap the final count is that of the total before capping,
\* and without a basePerSize entry the base row holds max(1, sizeNumeric || 1).
C15_MissingSectionsContributeNothing ==
    (call.helper = "getCargoSlotsCalculationBreakdown" /\ ~ConfigAbsent) =>
        /\ call.result # <<>>
        /\ call.result[1].label = "Base slots by size"
        /\ call.result[Len(call.result)].label = "Final slots"
        /\ callFinal \in Nat
        /\ callConfig.populationMultiplier = <<>> =>
               "Population contribution" \notin callLabels
        /\ callConfig.sizeMultiplier = <<>> =>
               "Size multiplier bonus" \notin callLabels
        /\ callConfig.flagMultipliers = <<>> => "Flag" \notin callLabels
        /\ callConfig.hardCap = <<>> =>
               callFinal = MathMax(1, MathRound(preCapTotal(callProps, callConfig)))
        /\ (callConfig.basePerSize = <<>>
            \/ callProps.sizeNumeric \notin DOMAIN callConfig.basePerSize[1]) =>
               call.result[1].baseSlots =
                   DFromInt(MathMax(1, IF callProps.sizeNumeric = 0 THEN 1
                                       ELSE callProps.sizeNumeric))

\* size "T", population 1000 and two flags on a configuration without any
\* section: the rows are the base row and the final row
C15_Witness ==
    /\ BreakdownCalled
    /\ call.settlement.size = Str(sT)
    /\ call.settlement.population = 1000
    /\ Len(call.settlement.flags) = 2
    /\ callConfig = [basePerSize |-> <<>>, populationMultiplier |-> <<>>,
                     sizeMultiplier |-> <<>>, hardCap |-> <<>>, flagMultipliers |-> <<>>]
    /\ Len(call.result) = 2
    /\ callFinal = 3

C18_NoDuplicateInSession ==
    \A i, j \in DOMAIN questions :
        (i # j /\ questions[i].category = questions[j].category)
        => questions[i].questionData.en # questions[j].questionData.en

\* two addQuestion calls for the same category have both been answered
C18_Witness ==
    /\ Len(questions) = 2
    /\ questions[1].category = "background"
    /\ questions[2].category = "background"
    /\ pendingAdds = {}

C20_BadgesCurrent ==
    countRequests = {} =>
        \/ categoryCount = zeroCounts
        \/ \A category \in Categories :
              categoryCount[category] =
                  IF category \in DOMAIN questionsJson
                  THEN Len(questionsJson[category])
                       - Cardinality({i \in DOMAIN questionsJson[category] :
                                        includes(blockedQuestions, questionsJson[category][i].en)})
                       - Cardinality({i \in DOMAIN questions : questions[i].category = category})
                  ELSE 0

(***************************************************************************)
(* Properties of the session list, the blocked list and the category       *)
(* counts, checked under SpecQuestions.                                    *)
(***************************************************************************)
\* the count getCategoryCounts computes for the lists as they are now
currentCount(category) == getCategoryCounts(blockedQuestions, questions)[category]

\* the number of questions addQuestion would draw from now
drawable(category) ==
    IF category \in DOMAIN questionsJson THEN Len(availableQuestions(category)) ELSE 0

CountsMatchDrawable ==
    \A category \in Categories :
        currentCount(category) = drawable(category) /\ currentCount(category) >= 0

\* the addQuestion call p is answered in this step and its fetch succeeded
AnsweredAdd(p) ==
    /\ p \in pendingAdds
    /\ pendingAdds' = pendingAdds \ {p}
    /\ ~(notice'.text = "Error adding question" /\ questions' = questions)

\* addQuestion adds nothing and warns with this text
WarnedAdd(text) ==
    /\ questions' = questions
    /\ notice' = [type |-> "warn", text |-> text]

AnsweredStep(p) == p \in pendingAdds /\ pendingAdds' = pendingAdds \ {p}

\* the step put a question of the category at the head of the session list
Delivered(category) ==
    /\ Len(questions') = Len(questions) + 1
    /\ Tail(questions') = questions
    /\ Head(questions').category = category

\* C22: an addQuestion call that is answered without delivering a question
\* (and every call answered when its category is missing or empty in the
\* data or has nothing left to draw delivers none) leaves the session list
\* and the blocked list unchanged, shows a warning or an error, and takes
\* the loading state off the button.
C22_FailedAddChangesNothing ==
    [][\A p \in pendingAdds :
          AnsweredStep(p) =>
              /\ drawable(p.category) = 0 => ~Delivered(p.category)
              /\ ~Delivered(p.category) =>
                    /\ questions' = questions
                    /\ blockedQuestions' = blockedQuestions
                    /\ notice'.type \in {"warn", "error"}
                    /\ notice'.text \in {"Error adding question",
                                         "No more unique questions available",
                                         "No questions available"}
                    /\ p.category \notin loading']_vars

\* a failed fetch was reported while a question is listed and one is blocked
C22_Witness ==
    /\ notice = [type |-> "error", text |-> "Error adding question"]
    /\ pendingAdds = {}
    /\ loading = {}
    /\ Len(questions) = 1
    /\ blockedQuestions # <<>>

NoTextTwice(seq) == \A i, j \in DOMAIN seq : seq[i] = seq[j] => i = j

\* C23: the blocked list never holds a text twice, and a step that takes a
\* text off it (unblockQuestion) removes that one text, keeps every other
\* text in its place and leaves the session list unchanged.
C23_BlockedListHasNoDuplicates ==
    /\ []NoTextTwice(blockedQuestions)
    /\ [][Len(blockedQuestions') < Len(blockedQuestions) =>
            /\ \E text \in Range(blockedQuestions) :
                  blockedQuestions' = SelectSeq(blockedQuestions, LAMBDA t : t # text)
            /\ Len(blockedQuestions') = Len(blockedQuestions) - 1
            /\ questions' = questions]_vars

\* "b1" and "b2" were blocked and "b1" was unblocked
C23_Witness ==
    /\ blockedQuestions = <<"b2">>
    /\ notice = [type |-> "info", text |-> "Question unblocked."]
    /\ nextId = 2

\* the messages a step appends to the chat
posted == SubSeq(chat', Len(chat) + 1, Len(chat'))

questionsPosted(category) ==
    SelectSeq(posted, LAMBDA m : m.kind = "question" /\ m.category = category)

\* C24: a form submission whose fetch delivered the data posts, for every
\* selected category of the data, min(n, available) question messages with
\* no text twice, and a warning message when n exceeds available.
C24_FormPostsMinOfRequestedAndAvailable ==
    [][(formRequest # NoRequest /\ formRequest' = NoRequest /\ chat' # chat) =>
          \A i \in DOMAIN formRequest[1].selectedCategories :
             LET category == formRequest[1].selectedCategories[i]
                 n == formRequest[1].numQuestions
             IN  category \in DOMAIN questionsJson =>
                    LET available == Len(questionsJson[category])
                    IN  /\ n \in 1..10
                        /\ Len(questionsPosted(category))
                              = IF n < available THEN n ELSE available
                        /\ NoTextTwice([k \in DOMAIN questionsPosted(category) |->
                                           questionsPosted(category)[k].text])
                        /\ n > available =>
                              includes(posted, warningMessage(category, n, available))]_vars

(***************************************************************************)
(* Properties of the scene-controls hook, checked under SpecControls.      *)
(***************************************************************************)
HookControls == {"character-questions", "trading-places"}

occurrences(list, name) == Len(SelectSeq(list, LAMBDA c : c = name))

firedFor(name) == \E i \in DOMAIN hookLog : hookLog[i].control = name

\* C25: once the hook of an add-on has fired on the controls list, the list
\* holds exactly one control of that add-on's name however often the hook
\* fires again, and a firing that finds the control on the list leaves the
\* list as it is.
C25_ExactlyOneControl ==
    /\ [](\A name \in HookControls :
             /\ occurrences(controls, name) <= 1
             /\ firedFor(name) => occurrences(controls, name) = 1)
    /\ [][(hookLog' # hookLog /\ includes(controls, hookLog'[Len(hookLog')].control))
             => controls' = controls]_vars

\* both hooks fired, the one of Character Questions twice
C25_Witness ==
    /\ controls = <<"token", "notes", "character-questions", "trading-places">>
    /\ Len(hookLog) = 3
    /\ hookLog[3] = [control |-> "character-questions",
                     logged |-> "already exists, skipping duplicate"]

(***************************************************************************)
(* Properties of the dataset dialogs, checked under SpecSettings.          *)
(***************************************************************************)
\* C26: no notification reports the built-in dataset 'wfrp4e' deleted, and a
\* confirmed deletion of 'wfrp4e' leaves the list of user datasets and the
\* stored dataset data unchanged.
C26_BuiltInNeverDeleted ==
    /\ [](notice # datasetNotice("info", "deleted successfully", "wfrp4e"))
    /\ [][("wfrp4e" \in deleteDialogs /\ "wfrp4e" \notin deleteDialogs')
             => UNCHANGED <<userDatasets, datasetData>>]_vars

creationRejections ==
    {"Dataset name cannot be empty",
     "Dataset name can only contain letters, numbers, hyphens, and underscores",
     "A dataset with this name already exists"}

====
